---- MODULE Spec2Model ----
(***************************************************************************)
(* Model of src/src/server.rs: MetricsServer, a mutex-protected Vec<u8>    *)
(* (Arc<Mutex<Vec<u8>>>) written by update() and read by the serving       *)
(* thread that serve() spawns.                                             *)
(*                                                                         *)
(* Threads: the producers (callers of update), the thread calling serve,   *)
(* and the serving threads, one for each serve call that bound its         *)
(* address.  serve may be called again whenever no call of it is under     *)
(* way, also after a call that panicked.  A step is one of: a lock         *)
(* acquisition together with the work done right under it, the release of  *)
(* the guard, a blocking call returning (recv, respond), thread::spawn,    *)
(* the return of serve.                                                    *)
(*                                                                         *)
(* Spec: the OS gives what it is asked for (stderr can be written, a       *)
(* thread can be created) and no serving thread panics, so the mutex is    *)
(* never poisoned.  PanicSpec adds the panic of thread::spawn in the       *)
(* caller of serve when no thread can be created, and the panics of a      *)
(* serving thread: inside the response write (respond or eprintln!         *)
(* panicking), which poisons the mutex when the guard is held, and in the  *)
(* eprintln! of the recv-error branch; and what follows from a poisoned    *)
(* mutex.                                                                  *)
(***************************************************************************)
EXTENDS Integers, Sequences, FiniteSets, TLC

\* ---------------------------------------------------------------- bounds
\* Total number of update() calls made by all producers together.
MaxUpdates == 2

\* ---------------------------------------------------------------- inputs
Producers == {"p1", "p2"}
\* The serving threads that serve can spawn, in the order it spawns them.
Servers == {"s1", "s2"}
\* Byte payloads handed to update(); the code never inspects the bytes.
Payloads == {<< >>, <<7>>, <<1, 2, 3, 4>>}
Methods == {"GET", "POST"}
Paths == {"/metrics", "/other-path"}
Queries == {"", "x=1"}
\* The requests sent: every method and path, and a query string on the
\* request that is served without one.
Requests ==
    {r \in [method : Methods, path : Paths, query : Queries] :
        r.query = "" \/ (r.method = "GET" /\ r.path = "/metrics")}

\* ------------------------------------------------------------- constants
Free == "free"
NoReq == [method |-> "-", path |-> "-", query |-> "-"]
NoResp == [status |-> 0, body |-> << >>, len |-> 0]
NoRet == -1
NoRead == -1
\* Heap allocations holding a Mutex<Vec<u8>>.  Root is the one new() makes;
\* the code makes no other, and the second one is there so that the sharing
\* of one allocation by all handles is something a behaviour could break.
Allocs == {"a0", "a1"}
Root == "a0"
\* The producer that holds the MetricsServer returned by new(); the other
\* producers hold clones of it.
Original == "p1"
\* The argument of an update that is not under way: `data` was moved into the buffer.
Moved == << >>
\* The lines eprintln! writes to stderr, by the branch that writes them: the
\* recv error and the failed response write; NoErr is nothing written yet.
NoErr == "none"
ErrKinds == {"recv", "write"}

VARIABLES
    heap,       \* allocation -> [data: the Vec<u8>, holder: of the mutex, poisoned]
    handle,     \* producer -> the allocation its MetricsServer points to
    srvBuf,     \* serving thread -> the allocation its `buf` points to, or "none"
    ppc,        \* producer -> "idle" | "acquire" | "locked" | "panicked"
    arg,        \* producer -> the data of its current / last update call
    ret,        \* producer -> value returned by its last update, or NoRet
    nUpd,       \* number of update calls made
    caller,     \* serving thread -> the serve call that spawns it (the last
                \*   that tried): "idle" | "spawning" | "spawned" | "returned" | "panicked"
    listener,   \* serving thread -> what Server::http(addr) of that call
                \*   returned: "none" | "bound" | "failed"
    spc,        \* serving thread -> "none" | "recv" | "handle" | "lock" | "respond" | "dead"
    req,        \* serving thread -> request being handled
    resp,       \* serving thread -> response being written by req.respond
    lastErr,    \* kind of the last line written to stderr, or NoErr
    order,      \* history: data of the updates, in lock acquisition order
    myVer,      \* history: producer -> position in order of its update in progress
    retMax,     \* history: latest position in order among the updates that returned
    readFloor,  \* history: thread -> retMax when its request began its buffer read
    readVer,    \* history: thread -> Len(order) when its request read the buffer
    inFlight,   \* history: thread -> requests it received whose handling has not ended
    attempts    \* history: thread -> response writes started for its current request

\* The buffer, its mutex and the poison flag of the allocation made by new().
buffer == heap[Root].data
lock == heap[Root].holder
poisoned == heap[Root].poisoned

bufVars == <<heap, handle>>
prodVars == <<ppc, arg, ret, nUpd, order, myVer, retMax>>
bindVars == <<caller, listener>>
srvVars == <<spc, srvBuf, req, resp, lastErr, readFloor, readVer, inFlight, attempts>>
vars == <<heap, handle, srvBuf, ppc, arg, ret, nUpd, caller, listener, spc, req,
          resp, lastErr, order, myVer, retMax, readFloor, readVer, inFlight, attempts>>

Max(a, b) == IF a >= b THEN a ELSE b

\* ------------------------------------------------------------ the buffer
\* Mutant of New: the buffer starts with a byte in it.
NewNonEmpty == <<0>>

\* MetricsServer::new: Mutex::new(Vec::new())
New == << >>

\* Mutant of CanLock: no mutual exclusion.
CanLockAlways(holder) == TRUE

\* Mutex::lock succeeds when nobody holds the mutex.
CanLock(holder) == holder = Free

\* Mutants of Replace: the data is appended to the old contents; only an
\* empty buffer is written; the data overwrites a prefix of the old contents.
ReplaceAppend(old, data) == old \o data
ReplaceIfEmpty(old, data) == IF old = << >> THEN data ELSE old
ReplaceOverwrite(old, data) ==
    IF Len(data) >= Len(old) THEN data
    ELSE data \o SubSeq(old, Len(data) + 1, Len(old))

\* Mutant of LockUnwrap: a poisoned lock is used all the same.
LockUnwrapInto(p) == "ok"

\* `lock().unwrap()`: panics when the mutex is poisoned.
LockUnwrap(p) == IF p THEN "panic" ELSE "ok"

\* Mutant of ArcClone: the clone is a copy in an allocation of its own.
ArcCloneDeep(a) == "a1"

\* Arc::clone (and the derived MetricsServer::clone): the same allocation.
ArcClone(a) == a

\* `*buf = data`: the old vector is dropped, the new one moved in.
Replace(old, data) == data

\* `buf.as_slice().len()`
SliceLen(buf) == Len(buf)

\* Mutant of BufferAfterRead: serving takes the vector out of the mutex.
BufferTaken(buf) == << >>

\* The serving thread only reads through its guard (`metrics.as_slice()`).
BufferAfterRead(buf) == buf

\* ---------------------------------------------------------- the responses
\* Response::empty(code)
Empty(code) == [status |-> code, body |-> << >>, len |-> 0]

\* Response::from_data(metrics.as_slice()): copies the bytes, status 200
FromData(data) == [status |-> 200, body |-> data, len |-> Len(data)]

\* req.url(): the raw request target, query string included
Url(r) == IF r.query = "" THEN <<r.path>> ELSE <<r.path, "?", r.query>>

MetricsUrl == <<"/metrics">>

\* Mutants of Route: the path is checked before the method; the path is not
\* checked at all.
RoutePathFirst(r) ==
    IF Url(r) # MetricsUrl THEN 404
    ELSE IF r.method # "GET" THEN 405
    ELSE 200
RouteNoPathCheck(r) == IF r.method # "GET" THEN 405 ELSE 200

\* Method check first, path check second.
Route(r) ==
    IF r.method # "GET" THEN 405
    ELSE IF Url(r) # MetricsUrl THEN 404
    ELSE 200

\* Mutant of Unwrap: the bind error is dropped and serve goes on.
UnwrapIgnored(ok) == "spawning"

\* `Server::http(addr).unwrap()`: the caller goes on only with a bound listener.
Unwrap(ok) == IF ok THEN "spawning" ELSE "panicked"

\* Mutant of AfterSpawn: serve joins the thread it spawned.
AfterSpawnJoin == "joining"

\* thread::spawn has returned: its JoinHandle is dropped and serve returns.
AfterSpawn == "returned"

\* Mutant of CanRecv: requests are handled in threads of their own, and the
\* loop receives the next one while a response is being written.
CanRecvWhileResponding(pc) == pc \in {"recv", "respond"}

\* server.recv() is called at the top of the loop body only.
CanRecv(pc) == pc = "recv"

\* recv error: eprintln and `continue`
AfterRecvErr == "recv"

\* Mutants of AfterRespond: a failed write ends the serving thread; a failed
\* write is tried again.
AfterRespondUnwrap(ok) == IF ok THEN "recv" ELSE "dead"
AfterRespondRetry(ok) == IF ok THEN "recv" ELSE "respond"

\* respond finished, with or without an error: (eprintln and) next iteration
AfterRespond(ok) == "recv"

\* Mutant of DropGuard: the guard is leaked (never dropped).
DropGuardLeak(holder, s) == holder

\* The guard `metrics` lives to the end of the loop body, the 405 and 404
\* branches never took it.
DropGuard(holder, s) == IF holder = s THEN Free ELSE holder

\* ------------------------------------------------------------------ Init
Init ==
    /\ heap = [a \in Allocs |-> [data |-> New, holder |-> Free, poisoned |-> FALSE]]
    /\ handle = [p \in Producers |-> IF p = Original THEN Root ELSE ArcClone(Root)]
    /\ srvBuf = [s \in Servers |-> "none"]
    /\ ppc = [p \in Producers |-> "idle"]
    /\ arg = [p \in Producers |-> Moved]
    /\ ret = [p \in Producers |-> NoRet]
    /\ nUpd = 0
    /\ caller = [s \in Servers |-> "idle"]
    /\ listener = [s \in Servers |-> "none"]
    /\ spc = [s \in Servers |-> "none"]
    /\ req = [s \in Servers |-> NoReq]
    /\ resp = [s \in Servers |-> NoResp]
    /\ lastErr = NoErr
    /\ order = << >>
    /\ myVer = [p \in Producers |-> 0]
    /\ retMax = 0
    /\ readFloor = [s \in Servers |-> 0]
    /\ readVer = [s \in Servers |-> NoRead]
    /\ inFlight = [s \in Servers |-> 0]
    /\ attempts = [s \in Servers |-> 0]

\* ---------------------------------------------------------------- update
\* A producer calls update(d) on its handle.
UpdateCall(p, d) ==
    /\ ppc[p] = "idle"
    /\ nUpd < MaxUpdates
    /\ ppc' = [ppc EXCEPT ![p] = "acquire"]
    /\ arg' = [arg EXCEPT ![p] = d]
    /\ ret' = [ret EXCEPT ![p] = NoRet]
    /\ nUpd' = nUpd + 1
    /\ UNCHANGED <<order, myVer, retMax>>
    /\ UNCHANGED <<bufVars, bindVars, srvVars>>

\* `let mut buf = self.0.lock().unwrap(); *buf = data;`
UpdateLock(p) ==
    /\ ppc[p] = "acquire"
    /\ CanLock(heap[handle[p]].holder)
    /\ LockUnwrap(heap[handle[p]].poisoned) = "ok"
    /\ heap' = [heap EXCEPT ![handle[p]].holder = p,
                            ![handle[p]].data = Replace(@, arg[p])]
    /\ ppc' = [ppc EXCEPT ![p] = "locked"]
    /\ order' = Append(order, arg[p])
    /\ myVer' = [myVer EXCEPT ![p] = Len(order) + 1]
    /\ UNCHANGED <<handle, arg, ret, nUpd, retMax>>
    /\ UNCHANGED <<bindVars, srvVars>>

\* `self.0.lock().unwrap()` on a poisoned mutex: update panics, the guard
\* inside the error is dropped, the buffer is not touched.
UpdatePoisoned(p) ==
    /\ ppc[p] = "acquire"
    /\ CanLock(heap[handle[p]].holder)
    /\ LockUnwrap(heap[handle[p]].poisoned) = "panic"
    /\ ppc' = [ppc EXCEPT ![p] = "panicked"]
    /\ UNCHANGED <<arg, ret, nUpd, order, myVer, retMax>>
    /\ UNCHANGED <<bufVars, bindVars, srvVars>>

\* `buf.as_slice().len()`, then the guard is dropped and update returns.
UpdateReturn(p) ==
    /\ ppc[p] = "locked"
    /\ ret' = [ret EXCEPT ![p] = SliceLen(heap[handle[p]].data)]
    /\ heap' = [heap EXCEPT ![handle[p]].holder = IF @ = p THEN Free ELSE @]
    /\ ppc' = [ppc EXCEPT ![p] = "idle"]
    /\ retMax' = Max(retMax, myVer[p])
    /\ myVer' = [myVer EXCEPT ![p] = 0]
    /\ arg' = [arg EXCEPT ![p] = Moved]
    /\ UNCHANGED <<handle, nUpd, order>>
    /\ UNCHANGED <<bindVars, srvVars>>

\* ----------------------------------------------------------------- serve
\* serve is called, at any time and on any thread but a serving one; a
\* call that panicked may be followed by another:
\* `let server = Server::http(addr).unwrap();`
ServeBind(s, ok) ==
    /\ caller[s] \in {"idle", "panicked"}
    /\ listener' = [listener EXCEPT ![s] = IF ok THEN "bound" ELSE "failed"]
    /\ caller' = [caller EXCEPT ![s] = Unwrap(ok)]
    /\ UNCHANGED <<bufVars, prodVars, srvVars>>

\* `let buf = Arc::clone(&self.0);` and `thread::spawn(...)`: from here on
\* the new thread runs, beside the rest of serve.  serve may have been called
\* on any of the handles.
ServeSpawn(s) ==
    /\ caller[s] = "spawning"
    /\ caller' = [caller EXCEPT ![s] = "spawned"]
    /\ spc' = [spc EXCEPT ![s] = "recv"]
    /\ \E h \in Producers : srvBuf' = [srvBuf EXCEPT ![s] = ArcClone(handle[h])]
    /\ UNCHANGED <<listener, req, resp, lastErr, readFloor, readVer, inFlight,
                   attempts>>
    /\ UNCHANGED <<bufVars, prodVars>>

\* `let buf = Arc::clone(&self.0);` and thread::spawn panics in the caller
\* (the OS cannot create a thread): unwinding drops the listener and the
\* clone, no thread was started, the buffer and its mutex are not touched.
ServeSpawnPanic(s) ==
    /\ caller[s] = "spawning"
    /\ caller' = [caller EXCEPT ![s] = "panicked"]
    /\ UNCHANGED listener
    /\ UNCHANGED <<bufVars, prodVars, srvVars>>

\* The JoinHandle is dropped and serve returns to its caller.
ServeReturn(s) ==
    /\ caller[s] = "spawned"
    /\ caller' = [caller EXCEPT ![s] = AfterSpawn]
    /\ UNCHANGED listener
    /\ UNCHANGED <<bufVars, prodVars, srvVars>>

\* `server.recv()` returns Ok(req).
Recv(s, r) ==
    /\ CanRecv(spc[s])
    /\ req' = [req EXCEPT ![s] = r]
    /\ spc' = [spc EXCEPT ![s] = "handle"]
    /\ inFlight' = [inFlight EXCEPT ![s] = @ + 1]
    /\ attempts' = [attempts EXCEPT ![s] = 0]
    /\ UNCHANGED <<srvBuf, resp, lastErr, readFloor, readVer>>
    /\ UNCHANGED <<bufVars, prodVars, bindVars>>

\* `server.recv()` returns Err(e): logged, the loop continues.
RecvErr(s) ==
    /\ spc[s] = "recv"
    /\ lastErr' = "recv"
    /\ spc' = [spc EXCEPT ![s] = AfterRecvErr]
    /\ UNCHANGED <<srvBuf, req, resp, readFloor, readVer, inFlight, attempts>>
    /\ UNCHANGED <<bufVars, prodVars, bindVars>>

\* `server.recv()` returns Err(e) and the eprintln! of that branch panics
\* (stderr cannot be written): nothing is logged and the thread dies,
\* holding no guard.
RecvErrPanic(s) ==
    /\ spc[s] = "recv"
    /\ spc' = [spc EXCEPT ![s] = "dead"]
    /\ UNCHANGED <<srvBuf, req, resp, lastErr, readFloor, readVer, inFlight,
                   attempts>>
    /\ UNCHANGED <<bufVars, prodVars, bindVars>>

\* `if req.method() != &Method::Get`: Response::empty(405), respond starts.
Reject405(s) ==
    /\ spc[s] = "handle"
    /\ Route(req[s]) = 405
    /\ resp' = [resp EXCEPT ![s] = Empty(405)]
    /\ spc' = [spc EXCEPT ![s] = "respond"]
    /\ attempts' = [attempts EXCEPT ![s] = @ + 1]
    /\ UNCHANGED <<srvBuf, req, lastErr, readFloor, readVer, inFlight>>
    /\ UNCHANGED <<bufVars, prodVars, bindVars>>

\* `if req.url() != "/metrics"`: Response::empty(404), respond starts.
Reject404(s) ==
    /\ spc[s] = "handle"
    /\ Route(req[s]) = 404
    /\ resp' = [resp EXCEPT ![s] = Empty(404)]
    /\ spc' = [spc EXCEPT ![s] = "respond"]
    /\ attempts' = [attempts EXCEPT ![s] = @ + 1]
    /\ UNCHANGED <<srvBuf, req, lastErr, readFloor, readVer, inFlight>>
    /\ UNCHANGED <<bufVars, prodVars, bindVars>>

\* Both checks passed: the thread calls buf.lock().
ServeLock(s) ==
    /\ spc[s] = "handle"
    /\ Route(req[s]) = 200
    /\ spc' = [spc EXCEPT ![s] = "lock"]
    /\ readFloor' = [readFloor EXCEPT ![s] = retMax]
    /\ UNCHANGED <<srvBuf, req, resp, lastErr, readVer, inFlight, attempts>>
    /\ UNCHANGED <<bufVars, prodVars, bindVars>>

\* `let metrics = buf.lock().unwrap();
\*  let res = Response::from_data(metrics.as_slice());` and respond starts.
ServeRead(s) ==
    /\ spc[s] = "lock"
    /\ CanLock(heap[srvBuf[s]].holder)
    /\ LockUnwrap(heap[srvBuf[s]].poisoned) = "ok"
    /\ heap' = [heap EXCEPT ![srvBuf[s]].holder = s,
                            ![srvBuf[s]].data = BufferAfterRead(@)]
    /\ resp' = [resp EXCEPT ![s] = FromData(heap[srvBuf[s]].data)]
    /\ readVer' = [readVer EXCEPT ![s] = Len(order)]
    /\ spc' = [spc EXCEPT ![s] = "respond"]
    /\ attempts' = [attempts EXCEPT ![s] = @ + 1]
    /\ UNCHANGED <<handle, srvBuf, req, lastErr, readFloor, inFlight>>
    /\ UNCHANGED <<prodVars, bindVars>>

\* `buf.lock().unwrap()` on a poisoned mutex: the serving thread panics
\* before it builds a response.
ServeReadPoisoned(s) ==
    /\ spc[s] = "lock"
    /\ CanLock(heap[srvBuf[s]].holder)
    /\ LockUnwrap(heap[srvBuf[s]].poisoned) = "panic"
    /\ spc' = [spc EXCEPT ![s] = "dead"]
    /\ UNCHANGED <<srvBuf, req, resp, lastErr, readFloor, readVer, inFlight, attempts>>
    /\ UNCHANGED <<bufVars, prodVars, bindVars>>

\* What the end of a loop iteration does to the thread's locals and guard.
EndIteration(s) ==
    /\ heap' = [heap EXCEPT ![srvBuf[s]].holder = DropGuard(@, s)]
    /\ req' = [req EXCEPT ![s] = NoReq]
    /\ resp' = [resp EXCEPT ![s] = NoResp]
    /\ readFloor' = [readFloor EXCEPT ![s] = 0]
    /\ readVer' = [readVer EXCEPT ![s] = NoRead]
    /\ inFlight' = [inFlight EXCEPT ![s] = @ - 1]
    /\ attempts' = [attempts EXCEPT ![s] = 0]

\* req.respond(res) returns Ok; the iteration ends and drops its locals.
RespondOk(s) ==
    /\ spc[s] = "respond"
    /\ spc' = [spc EXCEPT ![s] = AfterRespond(TRUE)]
    /\ EndIteration(s)
    /\ UNCHANGED <<handle, srvBuf, lastErr>>
    /\ UNCHANGED <<prodVars, bindVars>>

\* req.respond(res) returns Err(e): logged; the iteration ends the same way.
RespondErr(s) ==
    /\ spc[s] = "respond"
    /\ spc' = [spc EXCEPT ![s] = AfterRespond(FALSE)]
    /\ lastErr' = "write"
    /\ EndIteration(s)
    /\ UNCHANGED <<handle, srvBuf>>
    /\ UNCHANGED <<prodVars, bindVars>>

\* The serving thread panics inside the response write (req.respond, or
\* eprintln! when stderr cannot be written).  Unwinding drops the guard; a
\* guard dropped while panicking poisons its mutex.
ServePanic(s) ==
    /\ spc[s] = "respond"
    /\ spc' = [spc EXCEPT ![s] = "dead"]
    /\ heap' = [heap EXCEPT
                   ![srvBuf[s]].poisoned = @ \/ heap[srvBuf[s]].holder = s,
                   ![srvBuf[s]].holder = DropGuard(@, s)]
    /\ UNCHANGED <<handle, srvBuf, req, resp, lastErr, readFloor, readVer, inFlight, attempts>>
    /\ UNCHANGED <<prodVars, bindVars>>

Next ==
    \/ \E p \in Producers, d \in Payloads : UpdateCall(p, d)
    \/ \E p \in Producers : UpdateLock(p)
    \/ \E p \in Producers : UpdateReturn(p)
    \/ \E s \in Servers, ok \in BOOLEAN : ServeBind(s, ok)
    \/ \E s \in Servers : ServeSpawn(s)
    \/ \E s \in Servers : ServeReturn(s)
    \/ \E s \in Servers, r \in Requests : Recv(s, r)
    \/ \E s \in Servers : RecvErr(s)
    \/ \E s \in Servers : Reject405(s)
    \/ \E s \in Servers : Reject404(s)
    \/ \E s \in Servers : ServeLock(s)
    \/ \E s \in Servers : ServeRead(s)
    \/ \E s \in Servers : RespondOk(s)
    \/ \E s \in Servers : RespondErr(s)

Spec == Init /\ [][Next]_vars

\* The producers are scheduled fairly; nothing is assumed of the clients, of
\* the network, or of the serving threads.
FairSpec ==
    /\ Spec
    /\ \A p \in Producers : WF_vars(UpdateLock(p)) /\ WF_vars(UpdateReturn(p))

\* The steps of Next, and those a panic of thread::spawn or of a serving
\* thread brings.
PanicNext ==
    \/ Next
    \/ \E s \in Servers : ServeSpawnPanic(s)
    \/ \E s \in Servers : ServePanic(s)
    \/ \E s \in Servers : RecvErrPanic(s)
    \/ \E p \in Producers : UpdatePoisoned(p)
    \/ \E s \in Servers : ServeReadPoisoned(s)

PanicSpec == Init /\ [][PanicNext]_vars

TypeOK ==
    /\ \A a \in Allocs :
        /\ heap[a].data \in Seq(Int)
        /\ heap[a].holder \in {Free} \cup Servers \cup Producers
        /\ heap[a].poisoned \in BOOLEAN
    /\ handle \in [Producers -> Allocs]
    /\ srvBuf \in [Servers -> Allocs \cup {"none"}]
    /\ ppc \in [Producers -> {"idle", "acquire", "locked", "panicked"}]
    /\ arg \in [Producers -> Payloads]
    /\ nUpd \in 0..MaxUpdates
    /\ caller \in [Servers -> {"idle", "spawning", "spawned", "returned", "panicked"}]
    /\ listener \in [Servers -> {"none", "bound", "failed"}]
    /\ spc \in [Servers -> {"none", "recv", "handle", "lock", "respond", "dead"}]
    /\ lastErr \in ErrKinds \cup {NoErr}
    /\ Len(order) <= MaxUpdates
    /\ inFlight \in [Servers -> {0, 1}]
    /\ attempts \in [Servers -> {0, 1}]

\* ------------------------------------------------------------ properties
IsGetMetrics(r) == r.method = "GET" /\ Url(r) = MetricsUrl
Responding200(s) == spc[s] = "respond" /\ resp[s].status = 200
\* The data of the update that took the lock as the v-th one; 0 is new().
PayloadAt(v) == IF v = 0 THEN << >> ELSE order[v]
\* The values the buffer was ever given as a whole.
WholePayloads == {<< >>} \cup {order[i] : i \in DOMAIN order}
LoopPcs == {"recv", "handle", "lock", "respond"}

\* C1: the body of every 200 response is exactly one whole payload (the data
\* of one update that took the lock, or the initial empty buffer), and its
\* declared length is the length of that same body.
C1_AtomicReplace ==
    \A s \in Servers :
        Responding200(s) =>
            /\ resp[s].body \in WholePayloads
            /\ resp[s].len = Len(resp[s].body)

C1_Witness ==
    \E s \in Servers :
        /\ Responding200(s)
        /\ resp[s].body = <<1, 2, 3, 4>>
        /\ order = << <<7>>, <<1, 2, 3, 4>> >>
        /\ \E p \in Producers : ppc[p] = "idle" /\ ret[p] = 4

\* C2: while a serving thread is inside a response write it does not hold
\* the lock on the buffer.
C2_LockFreeDuringRespond ==
    \A s \in Servers : spc[s] = "respond" => lock # s

\* C3: under fair scheduling of the producers every update call that has
\* started eventually returns, whatever the clients of the server do.
C3_UpdateReturns ==
    \A p \in Producers : (ppc[p] = "acquire") ~> (ppc[p] = "idle")

\* C4: a GET /metrics whose buffer read starts after an update returned is
\* answered with the data of the update that took the lock last before the
\* read, which is that update or one that took the lock later.
C4_Ordering ==
    \A s \in Servers :
        Responding200(s) =>
            /\ readFloor[s] <= readVer[s]
            /\ readVer[s] <= Len(order)
            /\ resp[s].body = PayloadAt(readVer[s])

C4_Witness ==
    \E s \in Servers :
        /\ Responding200(s)
        /\ readFloor[s] >= 1
        /\ readVer[s] > readFloor[s]
        /\ resp[s].body # order[readFloor[s]]

\* C5: after two or more updates, a GET /metrics is answered 200 with a body
\* equal to exactly the data of the last update, also when that data is
\* shorter than the data before it or empty.
C5_LastWriteWins ==
    \A s \in Servers :
        (spc[s] = "respond" /\ IsGetMetrics(req[s]) /\ readVer[s] >= 2) =>
            /\ resp[s].status = 200
            /\ resp[s].body = order[readVer[s]]
            /\ resp[s].len = Len(order[readVer[s]])

C5_Witness ==
    \E s \in Servers :
        /\ spc[s] = "respond"
        /\ IsGetMetrics(req[s])
        /\ readVer[s] >= 2
        /\ resp[s].status = 200
        /\ Len(order[readVer[s]]) < Len(order[readVer[s] - 1])
        /\ \A p \in Producers : ppc[p] = "idle"

\* C6: a request whose method is not GET is answered 405 with an empty body
\* for any path and any buffer contents, and handling it neither takes the
\* lock nor reads the buffer.
C6_NonGet405 ==
    \A s \in Servers :
        /\ (req[s] # NoReq /\ req[s].method # "GET") =>
               /\ lock # s
               /\ readVer[s] = NoRead
               /\ spc[s] \in {"handle", "respond"}
        /\ (spc[s] = "respond" /\ req[s].method # "GET") =>
               resp[s] = [status |-> 405, body |-> << >>, len |-> 0]

C6_Witness ==
    \E s \in Servers :
        /\ spc[s] = "respond"
        /\ req[s].method = "POST"
        /\ req[s].path = "/other-path"
        /\ resp[s].status = 405
        /\ buffer = <<1, 2, 3, 4>>

\* C7: a GET request whose path is not /metrics is answered 404 with an
\* empty body for any buffer contents, and the buffer is not read for it.
C7_WrongPath404 ==
    \A s \in Servers :
        (spc[s] = "respond" /\ req[s].method = "GET" /\ req[s].path # "/metrics") =>
            /\ resp[s] = [status |-> 404, body |-> << >>, len |-> 0]
            /\ readVer[s] = NoRead
            /\ lock # s

C7_Witness ==
    \E s \in Servers :
        /\ spc[s] = "respond"
        /\ req[s].method = "GET"
        /\ req[s].path = "/other-path"
        /\ resp[s].status = 404
        /\ buffer = <<1, 2, 3, 4>>

\* C8: the buffer is empty until the first update takes the lock, and a
\* GET /metrics handled before any update is answered 200 with an empty body.
C8_FreshBufferEmpty200 ==
    /\ order = << >> => buffer = << >>
    /\ \A s \in Servers :
           (spc[s] = "respond" /\ IsGetMetrics(req[s]) /\ readVer[s] = 0) =>
               resp[s] = [status |-> 200, body |-> << >>, len |-> 0]

C8_Witness ==
    \E s \in Servers :
        /\ spc[s] = "respond"
        /\ IsGetMetrics(req[s])
        /\ nUpd = 0
        /\ resp[s].status = 200

\* C9: no per-request error ends a serving thread: once spawned it is always
\* in its loop, a receive error and the end of every response write (failed or
\* not) lead back to recv with the lock released, and a GET /metrics is
\* answered 200 with the buffer contents whatever errors came before.
C9_NoErrorStopsServer ==
    /\ [](\A s \in Servers : spc[s] # "none" => spc[s] \in LoopPcs)
    /\ [](\A s \in Servers :
              (spc[s] = "respond" /\ IsGetMetrics(req[s])) =>
                  resp[s] = [status |-> 200, body |-> buffer, len |-> Len(buffer)])
    /\ [][\A s \in Servers :
              (spc[s] = "respond" /\ spc'[s] # "respond") =>
                  (spc'[s] = "recv" /\ lock' # s)]_vars
    /\ [][\A s \in Servers :
              (spc[s] = "recv" /\ spc'[s] # "handle") => spc'[s] = "recv"]_vars

C9_Witness ==
    \E s \in Servers :
        /\ lastErr = "write"
        /\ Responding200(s)
        /\ IsGetMetrics(req[s])
        /\ resp[s].body = <<1, 2, 3, 4>>
        /\ \A t \in Servers \ {s} : spc[t] = "recv"

\* C10: when the address cannot be bound, the serve call fails in its caller
\* before it returns, that call spawns no serving thread and so receives no
\* request, and the bind attempt leaves the buffer, its lock and every
\* running serving thread as they were.  A serve call that failed in its
\* caller, at the bind or after it, has no serving thread.
C10_BindSynchronous ==
    /\ [](\A s \in Servers :
              listener[s] = "failed" =>
                  /\ caller[s] = "panicked"
                  /\ spc[s] = "none"
                  /\ req[s] = NoReq
                  /\ inFlight[s] = 0)
    /\ [](\A s \in Servers :
              caller[s] = "panicked" => (spc[s] = "none" /\ srvBuf[s] = "none"))
    /\ [][\A s \in Servers :
              (listener'[s] = "failed" /\
                   (listener'[s] # listener[s] \/ caller'[s] # caller[s])) =>
                  /\ heap' = heap
                  /\ spc' = spc
                  /\ req' = req]_vars

C10_Witness ==
    \E s \in Servers :
        /\ listener[s] = "failed"
        /\ caller[s] = "panicked"
        /\ buffer = <<1, 2, 3, 4>>
        /\ \E p \in Producers : ppc[p] = "acquire"
        /\ \E t \in Servers : spc[t] = "respond"

\* C11: after a successful bind serve returns without waiting for a
\* request: the spawn and then the return of serve are always possible,
\* whatever the new thread is doing and whether or not a request has come;
\* the return changes nothing of the serving thread; the producers go on
\* while the loop runs; and, with no fatal failure (the OS creates the
\* thread, nothing panics), the call leaves the spawn only with its thread
\* started and a thread never leaves its loop.
C11_ServeNonBlocking ==
    /\ [](\A s \in Servers : caller[s] = "spawning" => ENABLED ServeSpawn(s))
    /\ [](\A s \in Servers : caller[s] = "spawned" => ENABLED ServeReturn(s))
    /\ [](\A s \in Servers :
              caller[s] \in {"spawned", "returned"} => spc[s] \in LoopPcs)
    /\ [][\A s \in Servers :
              (caller[s] = "spawning" /\ caller'[s] # "spawning") =>
                  /\ caller'[s] = "spawned"
                  /\ spc'[s] = "recv"
                  /\ req'[s] = NoReq
                  /\ inFlight'[s] = 0]_vars
    /\ [][\A s \in Servers :
              (caller[s] = "spawned" /\ caller'[s] # "spawned") =>
                  /\ caller'[s] = "returned"
                  /\ spc' = spc
                  /\ req' = req]_vars
    /\ [][\A s \in Servers : spc[s] \in LoopPcs => spc'[s] \in LoopPcs]_vars

C11_Witness ==
    \E s \in Servers :
        /\ caller[s] = "returned"
        /\ spc[s] = "recv"
        /\ lastErr = NoErr
        /\ inFlight[s] = 0
        /\ \E p \in Producers : ppc[p] = "locked" /\ myVer[p] = 1

\* C12: update panics only on a poisoned lock and always gets through on an
\* unpoisoned one; the lock stays poisoned for good; once it is poisoned the
\* buffer is never modified again, no update takes the lock or returns, and
\* no 200 response is in the writing on any serving thread: the buffer read
\* of a GET /metrics panics instead.
C12_PoisonFatal ==
    /\ [](\A p \in Producers : ppc[p] = "panicked" => poisoned)
    /\ [](\A p \in Producers :
              (ppc[p] = "acquire" /\ lock = Free /\ ~poisoned) =>
                  (ENABLED UpdateLock(p) /\ ~ENABLED UpdatePoisoned(p)))
    /\ [](poisoned =>
              /\ \A s \in Servers : ~Responding200(s) /\ ~ENABLED ServeRead(s)
              /\ \A p \in Producers : ppc[p] # "locked")
    /\ [][poisoned =>
              /\ poisoned'
              /\ buffer' = buffer
              /\ order' = order
              /\ \A p \in Producers : ret'[p] \in {ret[p], NoRet}]_vars

C12_Witness ==
    \E s, t \in Servers :
        /\ poisoned
        /\ spc[s] = "dead"
        /\ resp[s].status = 200
        /\ spc[t] = "dead"
        /\ IsGetMetrics(req[t])
        /\ readVer[t] = NoRead
        /\ buffer = <<1, 2, 3, 4>>
        /\ \E p \in Producers : ppc[p] = "panicked"

\* C13: update(d) returns Len(d), for the empty d too, and that is the length
\* of the buffer at the moment the update releases the lock; while the
\* update holds the lock the buffer is d, whatever the buffer held before and
\* whatever the other threads do.
C13_UpdateReturnsLength ==
    /\ [](\A p \in Producers :
              ppc[p] = "locked" =>
                  /\ lock = p
                  /\ buffer = arg[p]
                  /\ ret[p] = NoRet)
    /\ [][\A p \in Producers :
              (ppc[p] = "locked" /\ ppc'[p] # "locked") =>
                  /\ ret'[p] = Len(arg[p])
                  /\ ret'[p] = Len(buffer)
                  /\ ppc'[p] = "idle"]_vars
    /\ [][\A p \in Producers :
              ret'[p] # ret[p] =>
                  (ret'[p] = NoRet \/ ppc[p] = "locked")]_vars

C13_Witness ==
    \E p \in Producers :
        /\ ppc[p] = "idle"
        /\ ret[p] = 0
        /\ order = << <<1, 2, 3, 4>>, << >> >>
        /\ myVer[p] = 0
        /\ retMax = 2
        /\ \E s \in Servers : spc[s] = "respond"

\* C14 as stated: at no time are two requests in handling.
C14_OneAtATime ==
    \A s, t \in Servers : inFlight[s] + inFlight[t] <= 1 \/ s = t

\* C14 as amended: each accept loop handles its requests one at a time: at
\* most one request of a serving thread is in handling, exactly while the
\* thread is between recv and the end of a response write; a thread receives
\* a request only when its previous one has reached its end (nothing in
\* hand, no response in the writing); and each response write that starts is
\* for the request the thread received last.
C14_OneAtATimePerLoop ==
    /\ [](\A s \in Servers :
              /\ inFlight[s] \in {0, 1}
              /\ inFlight[s] = 1 <=> spc[s] \in {"handle", "lock", "respond"})
    /\ [][\A s \in Servers :
              (inFlight'[s] > inFlight[s]) =>
                  /\ inFlight[s] = 0
                  /\ spc[s] = "recv"
                  /\ req[s] = NoReq
                  /\ resp[s] = NoResp]_vars
    /\ [][\A s \in Servers :
              (attempts'[s] > attempts[s]) =>
                  /\ inFlight[s] = 1
                  /\ req'[s] = req[s]
                  /\ req[s] # NoReq]_vars

C14_Witness ==
    \E s, t \in Servers :
        /\ s # t
        /\ spc[s] = "respond"
        /\ inFlight[s] = 1
        /\ attempts[s] = 1
        /\ IsGetMetrics(req[s])
        /\ spc[t] = "lock"
        /\ inFlight[t] = 1
        /\ lastErr = "write"

\* C15: each received request gets exactly one response write, with one
\* status out of 405, 404 and 200: 405 for every method but GET, otherwise
\* 200 when the request target is /metrics and 404 when it is not.  When the
\* write ends, failed or not, the request and the response are gone and the
\* thread is back in recv: no retry, no second response.  A receive error
\* starts no response.
C15_OneResponse ==
    /\ [](\A s \in Servers :
              spc[s] = "respond" =>
                  /\ attempts[s] = 1
                  /\ resp[s].status \in {405, 404, 200}
                  /\ req[s].method # "GET" <=> resp[s].status = 405
                  /\ (req[s].method = "GET" /\ Url(req[s]) = MetricsUrl)
                         <=> resp[s].status = 200)
    /\ [](\A s \in Servers :
              spc[s] # "respond" => (attempts[s] = 0 /\ resp[s] = NoResp))
    /\ [][\A s \in Servers :
              (spc[s] = "respond" /\ spc'[s] # spc[s]) =>
                  /\ spc'[s] = "recv"
                  /\ req'[s] = NoReq
                  /\ resp'[s] = NoResp
                  /\ attempts'[s] = 0]_vars
    /\ [][(lastErr' = "recv" /\ lastErr # "recv") =>
              /\ resp' = resp
              /\ attempts' = attempts
              /\ inFlight' = inFlight]_vars
    /\ [][\A s \in Servers :
              (spc[s] = "recv" /\ spc'[s] = "recv") =>
                  (resp'[s] = NoResp /\ attempts'[s] = 0 /\ inFlight'[s] = 0)]_vars

C15_Witness ==
    \E s \in Servers :
        /\ spc[s] = "recv"
        /\ lastErr = "recv"
        /\ attempts[s] = 0
        /\ resp[s] = NoResp
        /\ req[s] = NoReq
        /\ \E t \in Servers : spc[t] = "respond" /\ resp[t].status = 404

\* C16: a GET whose path is /metrics is answered 200 with the buffer
\* contents, with or without a query string.
C16_QueryIgnored ==
    \A s \in Servers :
        (spc[s] = "respond" /\ req[s].method = "GET" /\ req[s].path = "/metrics") =>
            /\ resp[s].status = 200
            /\ resp[s].body = buffer

\* C17: a serving thread never modifies the buffer: every step that changes
\* the buffer is an update taking the lock and storing its argument, no
\* step of a serving thread changes it, and the buffer is always the
\* argument of the update that took the lock last (empty before the first).
C17_ServeLeavesBuffer ==
    /\ [](buffer = PayloadAt(Len(order)))
    /\ [][(buffer' # buffer) =>
              \E p \in Producers :
                  /\ ppc[p] = "acquire"
                  /\ ppc'[p] = "locked"
                  /\ buffer' = arg[p]]_vars
    /\ [][(spc' # spc \/ lastErr' # lastErr \/ req' # req \/ resp' # resp) =>
              buffer' = buffer]_vars

C17_Witness ==
    \E s \in Servers :
        /\ Responding200(s)
        /\ resp[s].body = <<7>>
        /\ buffer = <<7>>
        /\ Len(order) >= 2
        /\ lastErr = "write"

\* The threads that are between taking the mutex and dropping their guard.
Holders ==
    {p \in Producers : ppc[p] = "locked"}
        \cup {s \in Servers : spc[s] = "respond" /\ readVer[s] # NoRead}

\* C18: the lock is never leaked: at most one thread is inside a guarded
\* section and the mutex names exactly that thread; a serving thread holds
\* it only while it answers a GET /metrics with 200, never in recv and never
\* while it answers 405 or 404; and whoever holds it can always go on to
\* release it, so no waiting thread is stuck behind a thread that waits.
C18_LockNotLeaked ==
    /\ Cardinality(Holders) <= 1
    /\ lock = Free <=> Holders = {}
    /\ lock # Free => Holders = {lock}
    /\ \A s \in Servers :
           /\ spc[s] \in {"none", "recv", "handle", "lock"} => lock # s
           /\ (spc[s] = "respond" /\ resp[s].status # 200) => lock # s
           /\ lock = s => (ENABLED RespondOk(s) /\ ENABLED RespondErr(s))
    /\ \A p \in Producers : lock = p => ENABLED UpdateReturn(p)

C18_Witness ==
    \E s, t \in Servers :
        /\ spc[s] = "recv"
        /\ lastErr = "write"
        /\ spc[t] = "lock"
        /\ lock = "p2"
        /\ ppc["p1"] = "acquire"

\* C19: all handles share one buffer: every producer's handle (the original
\* and the clones) and every serving thread's `buf` point to the allocation
\* made by new(), no other allocation is ever written or locked, and the
\* body of a 200 response is what every handle's buffer holds, which is the
\* data of the last update made through any of them.
C19_SharedBuffer ==
    /\ \A p \in Producers : handle[p] = Root
    /\ \A s \in Servers : spc[s] # "none" => srvBuf[s] = Root
    /\ \A a \in Allocs \ {Root} :
           heap[a] = [data |-> << >>, holder |-> Free, poisoned |-> FALSE]
    /\ \A s \in Servers :
           Responding200(s) =>
               /\ \A p \in Producers : resp[s].body = heap[handle[p]].data
               /\ resp[s].body = PayloadAt(Len(order))

C19_Witness ==
    \E s \in Servers :
        /\ Responding200(s)
        /\ order = << <<1, 2, 3, 4>>, <<7>> >>
        /\ ret[Original] = 4
        /\ \E p \in Producers \ {Original} : ret[p] = 1
        /\ resp[s].body = <<7>>
        /\ \A t \in Servers : srvBuf[t] = Root
====
